---- MODULE Spec2Model ----
(***************************************************************************)
(* Order packs calculator.                                                 *)
(*                                                                         *)
(* server/main.go : a pack store (MongoDB collection "packs") behind the   *)
(*                  HTTP handlers postPack, getPack, updatePack,           *)
(*                  deletePack and getPacks.                               *)
(* client/main.go : the calculator component.  Its callbacks run one at a  *)
(*                  time on the UI goroutine; its requests run in          *)
(*                  goroutines (ctx.Async) and hand the fetched packs back *)
(*                  with ctx.Dispatch.  The plan of an order is computed   *)
(*                  by calculatePacks and calculatePacksRecursive.         *)
(*                                                                         *)
(* The server's handlers keep their names.  Where the component has a      *)
(* function of the same name, the component's is written after what it     *)
(* does: getPacksAsync, httpGet, getPacksUnmarshal and getPacksDispatch    *)
(* are the parts of its getPacks, putPack stands for its updatePack (which *)
(* only calls putPack), createPack for its createPack and postPack,        *)
(* calculatorDeletePack for its deletePack.                                *)
(*                                                                         *)
(* Pack IDs are UUID strings.  The n-th UUID the server generates is       *)
(* written n (n >= 1) and the empty string is written NoID.                *)
(***************************************************************************)
EXTENDS Integers, Sequences, FiniteSets

VARIABLES
    collection,      \* server: the documents of packsdb.packs, in natural order
    nextID,          \* server: how many UUIDs uuid.New() has handed out, plus one
    resp,            \* server: the response of the last handled request
    deletedCount,    \* history: DeleteResult.DeletedCount of the DeleteOne of the
                     \*          last handled request, 0 when it ran none
    packs,           \* client: c.packs
    currentPack,     \* client: c.currentPack
    items,           \* client: c.items
    packQuantities,  \* client: c.packQuantities (nil is the empty sequence)
    mounted,         \* client: OnMount has run
    panicked,        \* client: a runtime panic has ended the program
    fatal,           \* client: log.Fatal or log.Fatalf has ended the program
    requests,        \* client: the requests of goroutines that have not reached
                     \*         the server yet
    answers,         \* client: the answers of the server on their way to the
                     \*         goroutines that asked
    fetched,         \* client: the packs held by goroutines of getPacks that
                     \*         have not dispatched them yet
    walk,            \* history: one record per invocation of calculatePacksRecursive
                     \*          made by the last calculatePacks; emptied when
                     \*          c.packs or c.items is assigned again, so a walk that
                     \*          is not empty is the walk of c.packs for c.items
    discarded        \* history: how many entries c.packQuantities held when the
                     \*          calculatePacks of walk began

serverVars == <<collection, nextID, resp, deletedCount>>
componentVars == <<packs, currentPack, items, packQuantities>>
programVars == <<mounted, panicked, fatal>>
goroutineVars == <<requests, answers, fetched>>
clientVars == <<componentVars, programVars, goroutineVars>>
historyVars == <<walk, discarded>>
vars == <<serverVars, clientVars, historyVars>>

(***************************************************************************)
(* Bounds of the model.                                                    *)
(***************************************************************************)
MaxPacks == 2          \* SpecStore: documents in the collection
MaxIDs == 3            \* SpecStore: UUIDs generated in one behaviour
MaxSize == 2           \* SpecStore: largest pack size a request carries
MaxLen == 3            \* SpecAlloc: packs in the store
MaxAllocSize == 4      \* SpecAlloc: largest pack size in the store
MaxItems == 7          \* SpecAlloc: largest number of items the user enters

NoID == 0
MinSize == 0 - 1
MinItems == 0 - 1

Sizes == MinSize..MaxSize
AllocSizes == MinSize..MaxAllocSize
Items == MinItems..MaxItems
IDs == NoID..MaxIDs

(***************************************************************************)
(* Go arithmetic and slices.                                               *)
(***************************************************************************)
Abs(n) == IF n < 0 THEN 0 - n ELSE n

\* Go's integer division truncates toward zero; b # 0 (b = 0 panics).
GoDiv(a, b) ==
    LET q == Abs(a) \div Abs(b)
    IN  IF (a < 0) = (b < 0) THEN q ELSE 0 - q

Pack(id, size) == [ID |-> id, Size |-> size]

PackQuantity(pack, quantity) == [Pack |-> pack, Quantity |-> quantity]

\* s without its i-th element.
Remove(s, i) == SubSeq(s, 1, i - 1) \o SubSeq(s, i + 1, Len(s))

\* sort.Slice(s, func(i, j) { return s[i].Size > s[j].Size }): the results a
\* sort that need not be stable can produce, that is every arrangement of s
\* in which the sizes descend (packs of equal size in any order).
RECURSIVE SortBySizeDesc(_)
SortBySizeDesc(s) ==
    IF s = <<>>
    THEN {<<>>}
    ELSE UNION {{<<s[i]>> \o t : t \in SortBySizeDesc(Remove(s, i))} :
                   i \in {k \in 1..Len(s) :
                             \A j \in 1..Len(s) : s[k].Size >= s[j].Size}}

SizesOf(s) == [i \in 1..Len(s) |-> s[i].Size]

(***************************************************************************)
(* calculatePacksRecursive (client/main.go).  packIndex is 0-based as in   *)
(* the source; c.packs[packIndex] is ps[packIndex + 1].                    *)
(***************************************************************************)

\* Variants of the definitions below, each with one slip; the theorems are
\* checked to tell the definitions from them.
walkDoneZeroItems(ps, n, packIndex) == n < 0 \/ packIndex >= Len(ps)

walkDoneNoLength(ps, n, packIndex) == n <= 0

atBoundaryInclusive(ps, n, packIndex) ==
    packIndex = Len(ps) - 1 /\ n - ps[packIndex + 1].Size >= 0

hasNextPackOffByOne(ps, packIndex) == packIndex < Len(ps)

subtractOnePack(n, packCount, size) == n - size

keepQuantities(pq) == pq

atBoundaryNever(ps, n, packIndex) == FALSE

shipsPacksOrNone(packCount) == packCount >= 0

assignPackSizeInPlace(ps, packIndex, size) ==
    [ps EXCEPT ![packIndex + 1].Size = size]

keepCallerID(pack, uuid) == IF pack.ID # NoID THEN pack ELSE [pack EXCEPT !.ID = uuid]

\* The early return of line 218.
walkDone(ps, n, packIndex) == n <= 0 \/ packIndex >= Len(ps)

\* The boundary condition of line 226.
atBoundary(ps, n, packIndex) ==
    packIndex = Len(ps) - 1 /\ n - ps[packIndex + 1].Size > 0

\* pack.Size = c.packs[packIndex-1].Size (line 227) as c.packs sees it: pack
\* is a copy of c.packs[packIndex] (line 222), so c.packs stays as it is.
assignPackSize(ps, packIndex, size) == ps

\* The test of line 230.
shipsPacks(packCount) == packCount > 0

\* items -= packCount * pack.Size (line 236).
subtractPacks(n, packCount, size) == n - packCount * size

\* The test of line 240: a smaller pack is left to try.
hasNextPack(ps, packIndex) == packIndex < Len(ps) - 1

\* One record of walk.  index, items: the arguments of the invocation;
\* read: c.packs[packIndex] was read; subst: the condition of line 226 held
\* (line 227 ran, or panicked); count: packCount;
\* size: pack.Size after lines 226-228; left: items after lines 230-237;
\* appended: the entries this invocation appended; fallback: lines 243-250
\* ran; panic: the invocation panicked.
WalkStep(packIndex, n, read, subst, count, size, left, appended, fallback, panic) ==
    [index |-> packIndex, items |-> n, read |-> read, subst |-> subst,
     count |-> count, size |-> size, left |-> left, appended |-> appended,
     fallback |-> fallback, panic |-> panic]

Returned(packIndex, n) ==
    WalkStep(packIndex, n, FALSE, FALSE, 0, 0, n, 0, FALSE, FALSE)

Panicked(packIndex, n, read, subst) ==
    WalkStep(packIndex, n, read, subst, 0, 0, n, 0, FALSE, TRUE)

\* c is the part of the component the recursion writes,
\* [packQuantities, walk, panicked], with c.packs as the walk leaves it;
\* ps is c.packs.
RECURSIVE calculatePacksRecursive(_, _, _, _)
calculatePacksRecursive(c, ps, n, packIndex) ==
    IF walkDone(ps, n, packIndex)
    THEN [c EXCEPT !.walk = Append(@, Returned(packIndex, n))]
    ELSE IF packIndex + 1 \notin 1..Len(ps)
    THEN \* c.packs[packIndex]: index out of range
         [c EXCEPT !.walk = Append(@, Panicked(packIndex, n, FALSE, FALSE)),
                   !.panicked = TRUE]
    ELSE LET pack == ps[packIndex + 1]
         IN
         IF pack.Size = 0
         THEN \* items / pack.Size: integer divide by zero
              [c EXCEPT !.walk = Append(@, Panicked(packIndex, n, TRUE, FALSE)),
                        !.panicked = TRUE]
         ELSE
         LET packCount == GoDiv(n, pack.Size)
             subst == atBoundary(ps, n, packIndex)
         IN
         IF subst /\ packIndex \notin 1..Len(ps)
         THEN \* c.packs[packIndex-1]: index out of range
              [c EXCEPT !.walk = Append(@, Panicked(packIndex, n, TRUE, TRUE)),
                        !.panicked = TRUE]
         ELSE
         LET size == IF subst THEN ps[packIndex].Size ELSE pack.Size
             ps1 == IF subst THEN assignPackSize(ps, packIndex, size) ELSE ps
             pq1 == IF shipsPacks(packCount)
                    THEN Append(c.packQuantities, PackQuantity(size, packCount))
                    ELSE c.packQuantities
             left == IF shipsPacks(packCount)
                     THEN subtractPacks(n, packCount, size)
                     ELSE n
             fallback == left > 0 /\ ~hasNextPack(ps1, packIndex)
             pq2 == IF fallback
                    THEN Append(pq1, PackQuantity(ps1[packIndex + 1].Size, 1))
                    ELSE pq1
             step == WalkStep(packIndex, n, TRUE, subst, packCount, size, left,
                              Len(pq2) - Len(c.packQuantities), fallback, FALSE)
             c1 == [c EXCEPT !.packs = ps1, !.packQuantities = pq2,
                             !.walk = Append(@, step)]
         IN
         IF left > 0 /\ hasNextPack(ps1, packIndex)
         THEN calculatePacksRecursive(c1, ps1, left, packIndex + 1)
         ELSE c1

\* c.packQuantities = nil (line 208).
resetQuantities(pq) == <<>>

(***************************************************************************)
(* The client component.                                                   *)
(***************************************************************************)

\* The value of an input field: the text of the integer n, or a text that
\* is no integer ("", "1.5", "1e3", a number out of the range of int).
IntText(n) == [int |-> TRUE, n |-> n]

NotAnInt == [int |-> FALSE, n |-> 0]

Texts(S) == {IntText(n) : n \in S} \cup {NotAnInt}

\* strconv.Atoi.
Atoi(text) == [value |-> IF text.int THEN text.n ELSE 0, err |-> ~text.int]

\* The program runs and the component is on the page.
Alive == mounted /\ ~panicked /\ ~fatal

\* setItems: c.items = items, or log.Fatalf when the text is no integer.
setItems(text) ==
    /\ Alive
    /\ LET r == Atoi(text)
       IN  IF r.err
           THEN /\ fatal' = TRUE
                /\ UNCHANGED <<items, historyVars>>
           ELSE /\ items' = r.value
                /\ walk' = <<>>
                /\ discarded' = 0
                /\ UNCHANGED fatal
    /\ UNCHANGED <<serverVars, packs, currentPack, packQuantities, mounted,
                   panicked, goroutineVars>>

\* setPack, on the input of the pack id of c.packs: c.currentPack.ID = id
\* (line 177), then c.currentPack.Size = size, or log.Fatalf when the text
\* is no integer.
setPack(id, text) ==
    /\ Alive
    /\ \E i \in 1..Len(packs) : packs[i].ID = id
    /\ LET r == Atoi(text)
       IN  IF r.err
           THEN /\ fatal' = TRUE
                /\ currentPack' = [currentPack EXCEPT !.ID = id]
           ELSE /\ currentPack' = [ID |-> id, Size |-> r.value]
                /\ UNCHANGED fatal
    /\ UNCHANGED <<serverVars, packs, items, packQuantities, mounted, panicked,
                   goroutineVars, historyVars>>

\* setNewPack: c.currentPack.Size = size, or log.Fatalf when the text is no
\* integer.
setNewPack(text) ==
    /\ Alive
    /\ LET r == Atoi(text)
       IN  IF r.err
           THEN /\ fatal' = TRUE
                /\ UNCHANGED currentPack
           ELSE /\ currentPack' = [currentPack EXCEPT !.Size = r.value]
                /\ UNCHANGED fatal
    /\ UNCHANGED <<serverVars, packs, items, packQuantities, mounted, panicked,
                   goroutineVars, historyVars>>

\* calculatePacks: reset the plan, sort the catalog, walk it.
calculatePacks ==
    /\ Alive
    /\ \E sorted \in SortBySizeDesc(packs) :
          \E c \in {calculatePacksRecursive(
                       [packs |-> sorted,
                        packQuantities |-> resetQuantities(packQuantities),
                        walk |-> <<>>, panicked |-> FALSE],
                       sorted, items, 0)} :
              /\ packs' = c.packs
              /\ packQuantities' = c.packQuantities
              /\ panicked' = c.panicked
              /\ walk' = c.walk
    /\ discarded' = Len(packQuantities)
    /\ UNCHANGED <<serverVars, currentPack, items, mounted, fatal, goroutineVars>>

(***************************************************************************)
(* The server: Database methods (operators) and HTTP handlers (actions).   *)
(***************************************************************************)
StatusOK == 200
StatusNoContent == 204
StatusBadRequest == 400
StatusNotFound == 404
StatusInternalServerError == 500

\* Pack{}: the zero value, also standing for a body that carries no pack.
ZeroPack == Pack(NoID, 0)

\* A response: the handler, the status and the body, which is a pack, a list
\* of packs (ListResponse) or neither.
Response(op, code, pack) == [op |-> op, code |-> code, pack |-> pack, packs |-> <<>>]

ListResponse(op, code, list) == [Response(op, code, ZeroPack) EXCEPT !.packs = list]

\* The position of the first document whose id is id, 0 when there is none.
FindOne(coll, id) ==
    IF \E i \in 1..Len(coll) : coll[i].ID = id
    THEN CHOOSE i \in 1..Len(coll) :
            /\ coll[i].ID = id
            /\ \A j \in 1..(i - 1) : coll[j].ID # id
    ELSE 0

\* pack.ID = uuid.New().String() (line 58).
assignID(pack, uuid) == [pack EXCEPT !.ID = uuid]

\* Database.CreatePack; failed: InsertOne returned an error.
CreatePack(coll, pack, uuid, failed) ==
    LET p == assignID(pack, uuid)
    IN  IF failed
        THEN [collection |-> coll, pack |-> ZeroPack, err |-> TRUE]
        ELSE [collection |-> Append(coll, p), pack |-> p, err |-> FALSE]

\* Database.GetAllPacks.
GetAllPacks(coll) == coll

\* Database.GetPack: FindOne(...).Decode returns an error when the query
\* fails (failed) and when no document matches.
GetPack(coll, id, failed) ==
    IF failed \/ FindOne(coll, id) = 0
    THEN [pack |-> ZeroPack, err |-> TRUE]
    ELSE [pack |-> coll[FindOne(coll, id)], err |-> FALSE]

\* Database.UpdatePack: UpdateOne with {"$set": pack} on the first document
\* whose id is pack.ID; no match is not an error.
UpdatePack(coll, pack, failed) ==
    IF failed
    THEN [collection |-> coll, pack |-> ZeroPack, err |-> TRUE]
    ELSE [collection |->
              IF FindOne(coll, pack.ID) = 0
              THEN coll
              ELSE [coll EXCEPT ![FindOne(coll, pack.ID)] = pack],
          pack |-> pack, err |-> FALSE]

\* DeletePack with one slip: DeleteOne under an empty filter, which deletes
\* the first document whatever its id.
DeletePackAnyID(coll, id, failed) ==
    IF failed
    THEN [collection |-> coll, deleted |-> 0, err |-> TRUE]
    ELSE [collection |-> IF coll = <<>> THEN coll ELSE Tail(coll),
          deleted |-> IF coll = <<>> THEN 0 ELSE 1,
          err |-> FALSE]

\* Database.DeletePack: DeleteOne on the first document whose id is id; no
\* match is not an error.
DeletePack(coll, id, failed) ==
    IF failed
    THEN [collection |-> coll, deleted |-> 0, err |-> TRUE]
    ELSE [collection |->
              IF FindOne(coll, id) = 0
              THEN coll
              ELSE Remove(coll, FindOne(coll, id)),
          deleted |-> IF FindOne(coll, id) = 0 THEN 0 ELSE 1,
          err |-> FALSE]

\* The handlers are written twice: xHandler is what the server does, and x
\* is the step of a request that comes from elsewhere than the component.

\* POST /packs with a body that does not bind to a Pack.
postPackBadRequest ==
    /\ resp' = Response("postPack", StatusBadRequest, ZeroPack)
    /\ deletedCount' = 0
    /\ UNCHANGED <<collection, nextID, clientVars, historyVars>>

\* POST /packs with a body that binds to pack.
postPackHandler(pack, failed) ==
    /\ nextID <= MaxIDs
    /\ Len(collection) < MaxPacks
    /\ LET r == CreatePack(collection, pack, nextID, failed)
       IN  /\ collection' = r.collection
           /\ resp' = IF r.err
                      THEN Response("postPack", StatusInternalServerError, ZeroPack)
                      ELSE Response("postPack", StatusOK, r.pack)
    /\ nextID' = nextID + 1
    /\ deletedCount' = 0

postPack(pack, failed) ==
    /\ postPackHandler(pack, failed)
    /\ UNCHANGED <<clientVars, historyVars>>

\* GET /packs/:id.
getPack(id, failed) ==
    /\ LET r == GetPack(collection, id, failed)
       IN  resp' = IF r.err
                   THEN Response("getPack", StatusNotFound, ZeroPack)
                   ELSE Response("getPack", StatusOK, r.pack)
    /\ deletedCount' = 0
    /\ UNCHANGED <<collection, nextID, clientVars, historyVars>>

\* PUT /packs/:id with a body that does not bind to a Pack.
updatePackBadRequest ==
    /\ resp' = Response("updatePack", StatusBadRequest, ZeroPack)
    /\ deletedCount' = 0
    /\ UNCHANGED <<collection, nextID, clientVars, historyVars>>

\* PUT /packs/:id with a body that binds to pack; pack.ID = id (line 188).
updatePackHandler(id, pack, failed) ==
    /\ LET r == UpdatePack(collection, [pack EXCEPT !.ID = id], failed)
       IN  /\ collection' = r.collection
           /\ resp' = IF r.err
                      THEN Response("updatePack", StatusInternalServerError, ZeroPack)
                      ELSE Response("updatePack", StatusOK, r.pack)
    /\ deletedCount' = 0
    /\ UNCHANGED nextID

updatePack(id, pack, failed) ==
    /\ updatePackHandler(id, pack, failed)
    /\ UNCHANGED <<clientVars, historyVars>>

\* DELETE /packs/:id.
deletePackHandler(id, failed) ==
    /\ LET r == DeletePack(collection, id, failed)
       IN  /\ collection' = r.collection
           /\ deletedCount' = r.deleted
           /\ resp' = IF r.err
                      THEN Response("deletePack", StatusNotFound, ZeroPack)
                      ELSE Response("deletePack", StatusNoContent, ZeroPack)
    /\ UNCHANGED nextID

deletePack(id, failed) ==
    /\ deletePackHandler(id, failed)
    /\ UNCHANGED <<clientVars, historyVars>>

\* A request no route matches (PUT /packs/ with an empty id): the router
\* answers 404 and no handler runs.
noRoute ==
    /\ resp' = Response("noRoute", StatusNotFound, ZeroPack)
    /\ deletedCount' = 0
    /\ UNCHANGED <<collection, nextID>>

\* The bodies a request can carry.
RequestPacks == {Pack(id, size) : id \in IDs, size \in Sizes}

\* GET /packs (server); failed: Find or cursor.All returned an error.
getPacksResponse(coll, failed) ==
    IF failed
    THEN Response("getPacks", StatusInternalServerError, ZeroPack)
    ELSE ListResponse("getPacks", StatusOK, GetAllPacks(coll))

getPacksHandler(failed) ==
    /\ resp' = getPacksResponse(collection, failed)
    /\ deletedCount' = 0
    /\ UNCHANGED <<collection, nextID>>

getPacks(failed) ==
    /\ getPacksHandler(failed)
    /\ UNCHANGED <<clientVars, historyVars>>

(***************************************************************************)
(* The requests of the component.  A goroutine is known by what it holds:  *)
(* its request until the server handles it, the server's answer until the  *)
(* goroutine goes on, the fetched packs until they are dispatched; two     *)
(* goroutines that hold the same are one.                                  *)
(***************************************************************************)
Request(method, id, size) == [method |-> method, id |-> id, size |-> size]

GetRequest == Request("GET", NoID, 0)

\* What a goroutine gets back: the status and, from GET /packs, the list.
Answer(method, code, list) == [method |-> method, code |-> code, packs |-> list]

\* getPacks (component): ctx.Async starts the goroutine of lines 44-71.
getPacksAsync(reqs) == reqs \cup {GetRequest}

\* OnMount: c.getPacks(ctx).
OnMount ==
    /\ ~mounted
    /\ ~panicked
    /\ ~fatal
    /\ mounted' = TRUE
    /\ requests' = getPacksAsync(requests)
    /\ UNCHANGED <<serverVars, componentVars, panicked, fatal, answers, fetched,
                   historyVars>>

\* createPack: c.postPack(ctx, c.currentPack), whose body is {"size": n}.
createPack ==
    /\ Alive
    /\ requests' = requests \cup {Request("POST", NoID, currentPack.Size)}
    /\ UNCHANGED <<serverVars, componentVars, programVars, answers, fetched,
                   historyVars>>

\* updatePack (component), the button of a pack's row: c.putPack(ctx,
\* c.currentPack), to /packs/<c.currentPack.ID>.
putPack ==
    /\ Alive
    /\ packs # <<>>
    /\ requests' = requests \cup {Request("PUT", currentPack.ID, currentPack.Size)}
    /\ UNCHANGED <<serverVars, componentVars, programVars, answers, fetched,
                   historyVars>>

\* deletePack (component), the button of the pack id of c.packs.
calculatorDeletePack(id) ==
    /\ Alive
    /\ \E i \in 1..Len(packs) : packs[i].ID = id
    /\ requests' = requests \cup {Request("DELETE", id, 0)}
    /\ UNCHANGED <<serverVars, componentVars, programVars, answers, fetched,
                   historyVars>>

\* http.Get (line 45) reaches the server, which handles GET /packs.
httpGet(failed) ==
    /\ ~panicked
    /\ ~fatal
    /\ GetRequest \in requests
    /\ getPacksHandler(failed)
    /\ requests' = requests \ {GetRequest}
    /\ answers' = answers \cup {Answer("GET", resp'.code, resp'.packs)}
    /\ UNCHANGED <<componentVars, programVars, fetched, historyVars>>

\* http.Get returns an error before the server is reached (lines 46-49):
\* logged, the goroutine returns.
httpGetFails ==
    /\ ~panicked
    /\ ~fatal
    /\ GetRequest \in requests
    /\ requests' = requests \ {GetRequest}
    /\ UNCHANGED <<serverVars, componentVars, programVars, answers, fetched,
                   historyVars>>

\* The goroutine of getPacks goes on with the answer (lines 45-67).  ~read:
\* the answer is lost or io.ReadAll fails (46-49, 53-56), logged.  The body
\* of a 500 is an object, which json.Unmarshal refuses for a slice of packs:
\* log.Fatalf (60-62).  The packs of a 200 are held; sort.Slice (64-66)
\* works on the goroutine's own slice and is taken with the dispatch.
getPacksUnmarshal(answer, read) ==
    /\ ~panicked
    /\ ~fatal
    /\ answer \in answers
    /\ answer.method = "GET"
    /\ answers' = answers \ {answer}
    /\ fatal' = (read /\ answer.code # StatusOK)
    /\ fetched' = IF read /\ answer.code = StatusOK
                  THEN fetched \cup {answer.packs}
                  ELSE fetched
    /\ UNCHANGED <<serverVars, componentVars, mounted, panicked, requests,
                   historyVars>>

\* The function getPacks queues with ctx.Dispatch (lines 68-70): c.packs =
\* packs, for the sorted packs of any goroutine that holds packs, in whatever
\* order the goroutines finish.
getPacksDispatch(list) ==
    /\ ~panicked
    /\ ~fatal
    /\ list \in fetched
    /\ \E sorted \in SortBySizeDesc(list) : packs' = sorted
    /\ fetched' = fetched \ {list}
    /\ walk' = <<>>
    /\ discarded' = 0
    /\ UNCHANGED <<serverVars, currentPack, items, packQuantities, programVars,
                   requests, answers>>

\* client.Do (lines 94, 130, 159) reaches the server, which handles the
\* request of postPack, putPack or deletePack (component).
clientDo(req, failed) ==
    /\ ~panicked
    /\ ~fatal
    /\ req \in requests
    /\ req.method # "GET"
    /\ CASE req.method = "POST" -> postPackHandler(Pack(NoID, req.size), failed)
         [] req.method = "PUT" ->
               IF req.id = NoID
               THEN noRoute
               ELSE updatePackHandler(req.id, Pack(req.id, req.size), failed)
         [] req.method = "DELETE" -> deletePackHandler(req.id, failed)
    /\ requests' = requests \ {req}
    /\ answers' = answers \cup {Answer(req.method, resp'.code, <<>>)}
    /\ UNCHANGED <<componentVars, programVars, fetched, historyVars>>

\* client.Do returns an error before the server is reached: log.Fatal
\* (lines 95-97, 131-133, 160-162).
clientDoFails(req) ==
    /\ ~panicked
    /\ ~fatal
    /\ req \in requests
    /\ req.method # "GET"
    /\ requests' = requests \ {req}
    /\ fatal' = TRUE
    /\ UNCHANGED <<serverVars, componentVars, mounted, panicked, answers, fetched,
                   historyVars>>

\* The goroutine of postPack, putPack or deletePack (component) goes on with
\* the answer, whatever its status.  ~read: the answer is lost or io.ReadAll
\* fails, log.Fatal.  Otherwise c.getPacks(ctx) (lines 105, 141, 170).
clientReadAll(answer, read) ==
    /\ ~panicked
    /\ ~fatal
    /\ answer \in answers
    /\ answer.method # "GET"
    /\ answers' = answers \ {answer}
    /\ fatal' = ~read
    /\ requests' = IF read THEN getPacksAsync(requests) ELSE requests
    /\ UNCHANGED <<serverVars, componentVars, mounted, panicked, fetched,
                   historyVars>>

(***************************************************************************)
(* Specifications.                                                         *)
(*                                                                         *)
(* Spec is the whole system from an empty database.  SpecStore runs the    *)
(* server's handlers on their own, for requests that come from elsewhere   *)
(* than the component.  SpecAlloc runs the component for a user who works  *)
(* the calculator (the Items field and the Calculate button) and no other  *)
(* part of the page, against a database that already holds packs (the      *)
(* database outlives the server); then the only request is the one of      *)
(* OnMount.  SpecScenario does the same for the catalog of the worked      *)
(* scenarios.                                                              *)
(***************************************************************************)
ClientInit ==
    /\ packs = <<>>
    /\ currentPack = ZeroPack
    /\ items = 0
    /\ packQuantities = <<>>
    /\ mounted = FALSE
    /\ panicked = FALSE
    /\ fatal = FALSE
    /\ requests = {}
    /\ answers = {}
    /\ fetched = {}
    /\ walk = <<>>
    /\ discarded = 0

Init ==
    /\ collection = <<>>
    /\ nextID = 1
    /\ resp = Response("none", 0, ZeroPack)
    /\ deletedCount = 0
    /\ ClientInit

\* The ids a path /packs/:id can carry: :id matches no empty segment.
PathIDs == IDs \ {NoID}

NextStore ==
    \/ postPackBadRequest
    \/ \E pack \in RequestPacks, failed \in BOOLEAN : postPack(pack, failed)
    \/ \E id \in PathIDs, failed \in BOOLEAN : getPack(id, failed)
    \/ updatePackBadRequest
    \/ \E id \in PathIDs, pack \in RequestPacks, failed \in BOOLEAN :
          updatePack(id, pack, failed)
    \/ \E id \in PathIDs, failed \in BOOLEAN : deletePack(id, failed)
    \/ \E failed \in BOOLEAN : getPacks(failed)

\* The component of a user who works the calculator, asked the demands of
\* Demands.
CalculatorSteps(Demands) ==
    \/ OnMount
    \/ \E failed \in BOOLEAN : httpGet(failed)
    \/ httpGetFails
    \/ \E answer \in answers, read \in BOOLEAN : getPacksUnmarshal(answer, read)
    \/ \E list \in fetched : getPacksDispatch(list)
    \/ \E text \in Texts(Demands) : setItems(text)
    \/ calculatePacks

\* The component of a user who works the list of packs.
CatalogSteps ==
    \/ \E id \in PathIDs, text \in Texts(Sizes) : setPack(id, text)
    \/ \E text \in Texts(Sizes) : setNewPack(text)
    \/ createPack
    \/ putPack
    \/ \E id \in PathIDs : calculatorDeletePack(id)
    \/ \E req \in requests, failed \in BOOLEAN : clientDo(req, failed)
    \/ \E req \in requests : clientDoFails(req)
    \/ \E answer \in answers, read \in BOOLEAN : clientReadAll(answer, read)

NextClient == CalculatorSteps(Items)

Next == NextStore \/ CalculatorSteps(Items) \/ CatalogSteps

Spec == Init /\ [][Next]_vars

SpecStore == Init /\ [][NextStore]_vars

\* The sequences over S of length n that are in descending order.
DescendingSeqs(S, n) ==
    {q \in [1..n -> S] : \A i \in 1..(n - 1) : q[i] >= q[i + 1]}

\* The packs stored under the UUIDs 1..Len(q) with the sizes q.
Stored(q) == [i \in 1..Len(q) |-> Pack(i, q[i])]

InitAlloc ==
    /\ \E n \in 0..MaxLen : \E q \in DescendingSeqs(AllocSizes, n) :
          /\ collection = Stored(q)
          /\ nextID = n + 1
    /\ resp = Response("none", 0, ZeroPack)
    /\ deletedCount = 0
    /\ ClientInit

SpecAlloc == InitAlloc /\ [][NextClient]_vars

ScenarioCatalog == <<5000, 2000, 1000, 500, 250>>

ScenarioItems == {0, 1, 249, 250, 251, 499, 500, 501, 750, 751, 1000, 1001, 12001}

InitScenario ==
    /\ collection = Stored(ScenarioCatalog)
    /\ nextID = Len(ScenarioCatalog) + 1
    /\ resp = Response("none", 0, ZeroPack)
    /\ deletedCount = 0
    /\ ClientInit

NextScenario == CalculatorSteps(ScenarioItems)

SpecScenario == InitScenario /\ [][NextScenario]_vars

\* The component against either database: the small catalogs are asked the
\* small demands, the scenario's catalog the scenario's demands.
NextCatalogs ==
    \/ SizesOf(collection) # ScenarioCatalog /\ NextClient
    \/ SizesOf(collection) = ScenarioCatalog /\ NextScenario

SpecCatalogs == (InitAlloc \/ InitScenario) /\ [][NextCatalogs]_vars

(***************************************************************************)
(* Properties.                                                             *)
(***************************************************************************)

\* calculatePacks has run on the present c.packs and c.items.
Calculated == walk # <<>>

\* Every pack of ps has a positive size.
PositiveSizes(ps) == \A i \in 1..Len(ps) : ps[i].Size >= 1

\* The items a plan ships: the sum of pack size times quantity.
RECURSIVE Shipped(_)
Shipped(pq) ==
    IF pq = <<>> THEN 0 ELSE pq[1].Pack * pq[1].Quantity + Shipped(Tail(pq))

\* The size c.packs holds at the index the k-th invocation walked.
SizeAt(k) == packs[walk[k].index + 1].Size

\* C1: for a non-empty catalog of positive sizes, sorted descending, and a
\* demand > 0, the plan ships at least the demand.
C1_ShipsAtLeastDemand ==
    (Calculated /\ packs # <<>> /\ PositiveSizes(packs) /\ items > 0)
        => Shipped(packQuantities) >= items

\* C2: the plans of the catalog {5000, 2000, 1000, 500, 250}: demand 1 and
\* demand 250 give [{250,1}], demand 251 gives [{500,1}] by the boundary
\* substitution with the remaining items going negative, and demand 501 gives
\* [{500,1},{250,1}].
C2_ScenarioPlans ==
    (Calculated /\ SizesOf(packs) = ScenarioCatalog) =>
        /\ items = 1 => packQuantities = <<PackQuantity(250, 1)>>
        /\ items = 250 => packQuantities = <<PackQuantity(250, 1)>>
        /\ items = 251 =>
              /\ packQuantities = <<PackQuantity(500, 1)>>
              /\ walk[Len(walk)].subst
              /\ walk[Len(walk)].left < 0
        /\ items = 501 =>
              packQuantities = <<PackQuantity(500, 1), PackQuantity(250, 1)>>

C2_Witness ==
    /\ Calculated
    /\ SizesOf(packs) = ScenarioCatalog
    /\ items = 251
    /\ packQuantities = <<PackQuantity(500, 1)>>
    /\ walk[Len(walk)].index = 4
    /\ walk[Len(walk)].subst

\* C3: for a catalog of one size and a demand > 0 the boundary substitution
\* never triggers, the allocation completes normally, and a positive
\* remainder left by the floor-division entry is covered by the fallback
\* entry {that size, 1}.
C3_SingleSizeCompletes ==
    (Calculated /\ Len(packs) = 1 /\ PositiveSizes(packs) /\ items > 0) =>
        /\ ~panicked
        /\ \A k \in 1..Len(walk) : ~walk[k].subst /\ ~walk[k].panic
        /\ walk[1].left > 0 =>
              /\ walk[1].fallback
              /\ packQuantities[Len(packQuantities)]
                    = PackQuantity(packs[1].Size, 1)

\* C4, as claimed: an invocation that finds the remaining items exactly
\* divisible by the size at its index, the last index included, brings them
\* to exactly 0, is the last invocation and appends nothing but its
\* floor-division entry.
C4_DivisibleReachesZero ==
    (Calculated /\ PositiveSizes(packs)) =>
        \A k \in 1..Len(walk) :
            (walk[k].read /\ ~walk[k].panic /\ walk[k].items % SizeAt(k) = 0) =>
                /\ walk[k].left = 0
                /\ k = Len(walk)
                /\ walk[k].appended = 1

\* C4, amended: the same for an invocation to which the boundary
\* substitution does not apply: its index is not the last one, or the
\* remaining items do not exceed the size at its index.
C4_DivisibleReachesZeroOffBoundary ==
    (Calculated /\ PositiveSizes(packs)) =>
        \A k \in 1..Len(walk) :
            (/\ walk[k].read
             /\ walk[k].items % SizeAt(k) = 0
             /\ (walk[k].index < Len(packs) - 1 \/ walk[k].items <= SizeAt(k))) =>
                /\ ~walk[k].panic
                /\ walk[k].left = 0
                /\ k = Len(walk)
                /\ walk[k].appended = 1
                /\ ~walk[k].fallback

\* A demand divisible by a middle size after a larger size took its share,
\* and one divisible by the last size.
C4_Witness ==
    /\ Calculated
    /\ PositiveSizes(packs)
    /\ Len(packs) = 3
    /\ Len(walk) = 2
    /\ walk[1].count > 0
    /\ walk[2].items % SizeAt(2) = 0
    /\ walk[2].count > 1

\* C5: for a non-empty descending catalog and a demand > 0 the allocation
\* makes at most len(sizes) invocations of calculatePacksRecursive, the
\* k-th of them at index k - 1 (each call advances the index by one and no
\* index is walked twice), whatever the demand.
C5_AtMostLenInvocations ==
    (Calculated /\ packs # <<>> /\ PositiveSizes(packs) /\ items > 0) =>
        /\ Len(walk) <= Len(packs)
        /\ \A k \in 1..Len(walk) : walk[k].index = k - 1

C5_Witness ==
    /\ Calculated
    /\ PositiveSizes(packs)
    /\ Len(packs) = 3
    /\ Len(walk) = 3
    /\ items > packs[1].Size + packs[2].Size + packs[3].Size

\* C6: for a demand <= 0 and any catalog the allocator returns an empty plan,
\* raises no error and reads no pack.
C6_NoDemandNoPlan ==
    (Calculated /\ items <= 0) =>
        /\ packQuantities = <<>>
        /\ ~panicked
        /\ \A k \in 1..Len(walk) : ~walk[k].read /\ ~walk[k].panic

\* A negative demand on a catalog that holds a pack of size 0.
C6_Witness ==
    /\ Calculated
    /\ items < 0
    /\ \E i \in 1..Len(packs) : packs[i].Size = 0
    /\ packQuantities = <<>>

\* C7: for an empty catalog and a demand > 0 the allocator ends at once with
\* an empty plan and without a panic.
C7_EmptyCatalogNoPlan ==
    (Calculated /\ packs = <<>> /\ items > 0) =>
        /\ packQuantities = <<>>
        /\ ~panicked
        /\ Len(walk) = 1
        /\ ~walk[1].read /\ ~walk[1].panic

C7_Witness ==
    /\ Calculated
    /\ packs = <<>>
    /\ items = MaxItems
    /\ packQuantities = <<>>

\* The plan of a component that has never calculated, for a catalog of the
\* sizes q (under no IDs) and n items.
FreshPlan(q, n) ==
    LET sorted == CHOOSE ps \in SortBySizeDesc([i \in 1..Len(q) |-> Pack(NoID, q[i])]) :
                      TRUE      \* lines 209-211; packs of equal size are equal here
    IN  calculatePacksRecursive(
            [packs |-> sorted, packQuantities |-> <<>>, walk |-> <<>>,
             panicked |-> FALSE],
            sorted, n, 0).packQuantities

\* C8: after any sequence of calculations the plan depends on the sizes of the
\* catalog and on the items alone: it is the plan a component that never
\* calculated before computes for them, so equal inputs give equal plans and
\* no entry of an earlier calculation stays in a later plan.
C8_PlanDependsOnInputsOnly ==
    Calculated => packQuantities = FreshPlan(SizesOf(packs), items)

\* A calculation that began with the plan of an earlier one and left a plan
\* of another length.
C8_Witness ==
    /\ Calculated
    /\ discarded > 0
    /\ packQuantities # <<>>
    /\ Len(packQuantities) < discarded

\* The IDs of the stored packs.
StoredIDs(coll) == {coll[i].ID : i \in 1..Len(coll)}

\* C9: after any sequence of create, update and delete operations every
\* stored pack size is >= 1 and no two stored packs have the same size.
C9_StoredSizesPositiveDistinct ==
    /\ PositiveSizes(collection)
    /\ \A i, j \in 1..Len(collection) :
          i # j => collection[i].Size # collection[j].Size

\* The steps in which CreatePack succeeds: uuid.New() was called and the
\* answer is 200.
CreateSucceeds == nextID' = nextID + 1 /\ resp'.code = StatusOK

\* C10: CreatePack assigns a fresh non-empty ID whatever ID the caller
\* supplied; after it succeeds GetAllPacks returns one more pack than
\* before, and GetPack with the returned ID returns a pack of that ID and of
\* the created size.
C10_CreateAssignsFreshID ==
    [][CreateSucceeds =>
          \A pack \in RequestPacks :
              postPack(pack, FALSE) =>
                  /\ resp'.pack.ID # NoID
                  /\ resp'.pack.ID \notin StoredIDs(collection)
                  /\ Len(GetAllPacks(collection'))
                        = Len(GetAllPacks(collection)) + 1
                  /\ GetPack(collection', resp'.pack.ID, FALSE)
                        = [pack |-> Pack(resp'.pack.ID, pack.Size),
                           err |-> FALSE]]_vars

\* A pack created next to a stored one.
C10_Witness ==
    /\ resp.op = "postPack"
    /\ resp.code = StatusOK
    /\ Len(collection) = 2
    /\ GetPack(collection, resp.pack.ID, FALSE) = [pack |-> resp.pack, err |-> FALSE]
    /\ collection[2] = resp.pack

\* The documents of coll whose id is not id, in their order.
Others(coll, id) == SelectSeq(coll, LAMBDA p : p.ID # id)

\* C11: after DeletePack(id) succeeds for an existing pack, neither
\* GetAllPacks nor GetPack returns a pack of that ID, and every other stored
\* pack is as it was (deleting the only pack leaves the store empty).
C11_DeleteRemovesOnlyThatPack ==
    [][(resp'.op = "deletePack" /\ resp'.code = StatusNoContent) =>
          \A id \in StoredIDs(collection) :
              deletePack(id, FALSE) =>
                  /\ id \notin StoredIDs(GetAllPacks(collection'))
                  /\ GetPack(collection', id, FALSE).err
                  /\ GetAllPacks(collection') = Others(collection, id)]_vars

\* A pack was deleted and another one is still stored.
C11_Witness ==
    /\ resp.op = "deletePack"
    /\ resp.code = StatusNoContent
    /\ deletedCount = 1
    /\ Len(collection) = 1

\* C12: DELETE /packs/:id answers 404 when the deletion fails or no pack of
\* that ID exists, and 204 only when a pack was deleted.
C12_DeleteStatusTellsDeletion ==
    resp.op = "deletePack" =>
        /\ resp.code \in {StatusNoContent, StatusNotFound}
        /\ resp.code = StatusNoContent <=> deletedCount = 1

\* C13: every entry of a plan produced from a catalog of positive sizes has
\* a quantity >= 1 and a pack size that is one of the catalog's sizes.
C13_EntriesPositiveFromCatalog ==
    (Calculated /\ PositiveSizes(packs)) =>
        \A e \in 1..Len(packQuantities) :
            /\ packQuantities[e].Quantity >= 1
            /\ \E i \in 1..Len(packs) : packQuantities[e].Pack = packs[i].Size

\* A plan of several entries, one of them of more than one pack.
C13_Witness ==
    /\ Calculated
    /\ PositiveSizes(packs)
    /\ Len(packQuantities) >= 2
    /\ \E e \in 1..Len(packQuantities) : packQuantities[e].Quantity >= 2

\* C14: in a catalog of at least two sizes, an invocation at the last index
\* with more items remaining than the smallest size appends exactly one
\* entry {second-smallest size, floor(remaining / smallest size)}, subtracts
\* that count times the second-smallest size, and appends no fallback entry
\* because the remaining items are then <= 0.
C14_BoundarySubstitution ==
    (Calculated /\ Len(packs) >= 2 /\ PositiveSizes(packs)) =>
        \A k \in 1..Len(walk) :
            (/\ walk[k].read
             /\ walk[k].index = Len(packs) - 1
             /\ walk[k].items > SizeAt(k)) =>
                /\ ~walk[k].panic
                /\ walk[k].subst
                /\ walk[k].appended = 1
                /\ ~walk[k].fallback
                /\ packQuantities[Len(packQuantities)]
                      = PackQuantity(packs[Len(packs) - 1].Size,
                                     walk[k].items \div SizeAt(k))
                /\ walk[k].left
                      = walk[k].items
                          - (walk[k].items \div SizeAt(k))
                              * packs[Len(packs) - 1].Size
                /\ walk[k].left <= 0
                /\ k = Len(walk)

\* Three sizes, and two packs of the smallest size fit the remaining items.
C14_Witness ==
    /\ Calculated
    /\ PositiveSizes(packs)
    /\ Len(packs) = 3
    /\ Len(walk) = 3
    /\ walk[3].subst
    /\ walk[3].count = 2
    /\ packs[2].Size > packs[3].Size
    /\ ~panicked

\* Every pack of ps is larger than the next one.
StrictlyDescending(ps) == \A i \in 1..(Len(ps) - 1) : ps[i].Size > ps[i + 1].Size

\* C15: entries of the same pack size stay separate entries, in the order
\* they were produced: demand 751 on the catalog {5000, 2000, 1000, 500, 250}
\* gives [{500,1},{500,1}]; and for a strictly descending catalog only the
\* second-smallest size is ever in two entries, and no size in three.
C15_DuplicateEntriesKept ==
    (Calculated /\ PositiveSizes(packs) /\ StrictlyDescending(packs)) =>
        /\ (SizesOf(packs) = ScenarioCatalog /\ items = 751) =>
              packQuantities = <<PackQuantity(500, 1), PackQuantity(500, 1)>>
        /\ \A i, j \in 1..Len(packQuantities) :
              (i < j /\ packQuantities[i].Pack = packQuantities[j].Pack) =>
                  /\ Len(packs) >= 2
                  /\ packQuantities[i].Pack = packs[Len(packs) - 1].Size
                  /\ \A k \in 1..Len(packQuantities) :
                        packQuantities[k].Pack = packQuantities[i].Pack
                            => k \in {i, j}

C15_Witness ==
    /\ Calculated
    /\ SizesOf(packs) = ScenarioCatalog
    /\ items = 751
    /\ packQuantities = <<PackQuantity(500, 1), PackQuantity(500, 1)>>

\* How many elements of the sequence s equal x.
Count(s, x) == Cardinality({i \in 1..Len(s) : s[i] = x})

\* C16: calculatePacks leaves the contents of the catalog intact: after a
\* calculation c.packs holds the packs (ID and size) it held before, each as
\* often as before, in descending order of size.  (The steps that leave a
\* walk are the steps of calculatePacks and the steps that happen between a
\* calculation and the next assignment of c.packs or c.items.)
C16_CatalogIntact ==
    [][walk' # <<>> =>
          /\ Len(packs') = Len(packs)
          /\ \A i \in 1..Len(packs) :
                Count(packs', packs[i]) = Count(packs, packs[i])
          /\ \A i \in 1..(Len(packs') - 1) :
                packs'[i].Size >= packs'[i + 1].Size]_vars

\* A calculation whose last invocation substituted the second-smallest size.
C16_Witness ==
    /\ Calculated
    /\ ~panicked
    /\ Len(packs) = 3
    /\ walk[Len(walk)].subst
    /\ walk[Len(walk)].appended = 1
    /\ packs[2].Size > packs[3].Size

\* C17: for a catalog of at least two positive, descending sizes the plan has
\* at most len(sizes) entries: an invocation appends at most one entry, and
\* at the last index never both the floor-division entry and the fallback
\* entry.
C17_AtMostLenEntries ==
    (Calculated /\ Len(packs) >= 2 /\ PositiveSizes(packs)) =>
        /\ Len(packQuantities) <= Len(packs)
        /\ \A k \in 1..Len(walk) :
              /\ walk[k].appended <= 1
              /\ ~(walk[k].count > 0 /\ walk[k].fallback)

\* A plan with one entry for each of three sizes.
C17_Witness ==
    /\ Calculated
    /\ PositiveSizes(packs)
    /\ Len(packs) = 3
    /\ Len(packQuantities) = 3

====
